---- MODULE Spec2Model ----
(***************************************************************************)
(* Model of ckb-typed-message/src/lib.rs: the typed-message signing digest *)
(* pipeline (parse_typed_message and the public generate_skeleton_hash).   *)
(* The host (ckb-std syscalls), the molecule codec and the blake2b hasher  *)
(* are collaborators; they are modelled by their contracts.                *)
(***************************************************************************)
EXTENDS Integers, Sequences, FiniteSets, TLC

\* ---------------------------------------------------------------- bounds
\* witnesses in the transaction that is run
MaxWitnesses == 3
\* inputs of the transaction that is run (at least one)
MaxInputs == 2
\* surplus witnesses of the transactions it is compared with
MaxAltSurplus == 2

\* ------------------------------------------------------ program constants
\* molecule::NUMBER_SIZE, the header of the inputs vector
NUMBER_SIZE == 4
\* CellInput::TOTAL_SIZE
CellInputTotalSize == 44
\* load_transaction(&mut offsets, 28) with offsets = [0u8; 8]
OffsetsStart == 28
OffsetsLen == 8
\* (len as u64).to_le_bytes()
LenPrefixSize == 8
\* [u8; 32]
DigestSize == 32

\* ------------------------------------------------------------ byte helpers
RECURSIVE to_le_bytes(_, _)
to_le_bytes(n, k) ==
    IF k = 0 THEN <<>> ELSE <<n % 256>> \o to_le_bytes(n \div 256, k - 1)

RECURSIVE from_le_bytes(_)
from_le_bytes(b) ==
    IF b = <<>> THEN 0 ELSE b[1] + 256 * from_le_bytes(Tail(b))

\* ------------------------------------------- codec (ExtendedWitness union)
\* One tag byte, then the body.  Sighash: the lock.  SighashWithAction: one
\* byte holding the lock length, the lock, then the message.
TagSighashWithAction == 1
TagSighash == 2
TagOtx == 3

EncodeSighash(lock) == <<TagSighash>> \o lock
EncodeSighashWithAction(lock, message) ==
    <<TagSighashWithAction, Len(lock)>> \o lock \o message

DecodeError == [ok |-> FALSE, variant |-> "", lock |-> <<>>, message |-> <<>>]

ExtendedWitnessReader_from_slice(w) ==
    IF Len(w) = 0 THEN DecodeError
    ELSE IF w[1] = TagSighash
         THEN [ok |-> TRUE, variant |-> "Sighash",
               lock |-> Tail(w), message |-> <<>>]
    ELSE IF w[1] = TagSighashWithAction
         THEN IF Len(w) >= 2 /\ w[2] <= Len(w) - 2
              THEN [ok |-> TRUE, variant |-> "SighashWithAction",
                    lock |-> SubSeq(w, 3, 2 + w[2]),
                    message |-> SubSeq(w, 3 + w[2], Len(w))]
              ELSE DecodeError
    ELSE IF w[1] = TagOtx
         THEN [ok |-> TRUE, variant |-> "Otx", lock |-> <<>>, message |-> <<>>]
    ELSE DecodeError

\* ------------------------------------------------------------------ hasher
\* blake2b, taken as injective on the byte stream it was fed: the digest is
\* the term naming its preimage.
Blake2b(stream) == [digest_of |-> stream]
NoDigest == [digest_of |-> <<>>]

\* ------------------------------------------------------- transaction pool
Locks == {<<7>>, <<8, 8>>}
Messages == {<<5>>, <<6>>, <<5, 6>>}

WitnessPool ==
    { <<>>,                                          \* empty witness
      <<TagSighashWithAction>>,                      \* undecodable bytes
      <<TagOtx, 9>>,                                 \* another valid variant
      EncodeSighash(<<7>>),
      EncodeSighashWithAction(<<8, 8>>, <<5>>),
      EncodeSighashWithAction(<<7>>, <<6>>) }

\* The code never looks into the transaction hash: one value is run, the
\* other serves to compare streams.
RunTxHash == [k \in 1..DigestSize |-> 17]
TxHashes == { RunTxHash, [k \in 1..DigestSize |-> 0] }

\* where the inputs field starts in the envelope
InputsOffsets == {300}

SeqsUpTo(S, n) == UNION { [1..k -> S] : k \in 0..n }

\* groups: non-empty ascending sequences of input indices (0-based)
RECURSIVE SetToSortedSeq(_)
SetToSortedSeq(S) ==
    IF S = {} THEN <<>>
    ELSE LET m == CHOOSE x \in S : \A y \in S : x <= y
         IN <<m>> \o SetToSortedSeq(S \ {m})

Groups(n) == { SetToSortedSeq(S) : S \in (SUBSET (0..(n - 1))) \ {{}} }

Transactions ==
    UNION { { [witnesses |-> ws, inputs |-> n, group |-> gr, tx_hash |-> h] :
                ws \in SeqsUpTo(WitnessPool, MaxWitnesses), gr \in Groups(n),
                h \in {RunTxHash} } : n \in 1..MaxInputs }

Entries == {"parse_typed_message", "generate_skeleton_hash"}

\* -------------------------------------------------------------------- host
\* A host read answers [ok, err, data].
HostOk(data) == [ok |-> TRUE, err |-> "", data |-> data]
HostErr(e) == [ok |-> FALSE, err |-> e, data |-> <<>>]

\* load_witness(index, source) on transaction t, as the host serves it
load_witness(t, index, source) ==
    IF source = "Input"
    THEN IF index < Len(t.witnesses)
         THEN HostOk(t.witnesses[index + 1])
         ELSE HostErr("IndexOutOfBound")
    ELSE IF index < Len(t.group) /\ t.group[index + 1] < Len(t.witnesses)
         THEN HostOk(t.witnesses[t.group[index + 1] + 1])
         ELSE HostErr("IndexOutOfBound")

\* what a witness read can answer: the served read, or a host failure
WitnessReads(t, index, source) ==
    {load_witness(t, index, source), HostErr("Unknown")}

\* load_tx_hash
TxHashReads(t) == {HostOk(t.tx_hash), HostErr("Unknown")}

\* The 8-byte window [28, 36) of the envelope: inputs-offset, outputs-offset.
EnvelopeWindow(inputs_offset, outputs_offset) ==
    to_le_bytes(inputs_offset, NUMBER_SIZE) \o to_le_bytes(outputs_offset, NUMBER_SIZE)

WellFormedWindows(t) ==
    { EnvelopeWindow(o, o + NUMBER_SIZE + CellInputTotalSize * t.inputs) :
        o \in InputsOffsets }

\* an envelope whose outputs field starts before the inputs field ends
MalformedWindows == { EnvelopeWindow(300, 302) }

\* load_transaction(&mut offsets, 28): the syscall's answer and the buffer
TransactionReads(t) ==
    { [err |-> "LengthNotEnough", buf |-> b] :
        b \in WellFormedWindows(t) \cup MalformedWindows }
    \cup { [err |-> e, buf |-> [k \in 1..OffsetsLen |-> 0]] :
            e \in {"Unknown", "IndexOutOfBound", "ItemMissing", "Encoding"} }

\* ------------------------------------------------------------ return values
\* Abort is a panic: unreachable!() in calculate_inputs_len, the overflow
\* check of its subtraction, or QueryIter meeting a host error other than
\* IndexOutOfBound.
Ok(digest, lock) == [kind |-> "ok", err |-> "", digest |-> digest, lock |-> lock]
Err(e) == [kind |-> "err", err |-> e, digest |-> NoDigest, lock |-> <<>>]
Abort == [kind |-> "abort", err |-> "", digest |-> NoDigest, lock |-> <<>>]
Running == [kind |-> "none", err |-> "", digest |-> NoDigest, lock |-> <<>>]

\* Error::Sys(e), by the host error it wraps
Sys(e) ==
    CASE e = "IndexOutOfBound" -> "Sys(IndexOutOfBound)"
      [] e = "ItemMissing" -> "Sys(ItemMissing)"
      [] e = "Encoding" -> "Sys(Encoding)"
      [] OTHER -> "Sys(Unknown)"

None == [some |-> FALSE, lock |-> <<>>, message |-> <<>>]
Some(r) == [some |-> TRUE, lock |-> r.lock, message |-> r.message]

\* ------------------------------------------------- the code, step by step
\* a slip: only a witness of two bytes or more counts as trailer data
TrailerViolation_LongOnly(witness) == Len(witness) > 1

\* check_others_in_group, the test of one witness behind the first
TrailerViolation(witness) == Len(witness) # 0

\* a slip: the scan counts Sighash witnesses too
IsSighashWithAction_AnySighash(witness) ==
    LET r == ExtendedWitnessReader_from_slice(witness)
    IN r.ok /\ r.variant \in {"SighashWithAction", "Sighash"}

\* fetch_sighash_with_action, the test of one witness
IsSighashWithAction(witness) ==
    LET r == ExtendedWitnessReader_from_slice(witness)
    IN r.ok /\ r.variant = "SighashWithAction"

\* fetch_sighash_with_action, the loop body: [err, result]
ScanStep(result, witness) ==
    IF IsSighashWithAction(witness)
    THEN IF result.some
         THEN [err |-> TRUE, result |-> result]
         ELSE [err |-> FALSE,
               result |-> Some(ExtendedWitnessReader_from_slice(witness))]
    ELSE [err |-> FALSE, result |-> result]

\* fetch_sighash_with_action, after the loop
ScanEnd(result) == IF result.some THEN "" ELSE "WrongSighashWithAction"

\* a slip: any witness that decodes is taken, whatever its variant
FetchSighashResult_AnyVariant(read) ==
    IF read.ok
    THEN LET r == ExtendedWitnessReader_from_slice(read.data)
         IN IF r.ok
            THEN [err |-> "", witness |-> r]
            ELSE [err |-> "MoleculeEncoding", witness |-> DecodeError]
    ELSE [err |-> Sys(read.err), witness |-> DecodeError]

\* fetch_sighash on the host's answer for load_witness(0, GroupInput):
\* [err, witness]
FetchSighashResult(read) ==
    IF read.ok
    THEN LET r == ExtendedWitnessReader_from_slice(read.data)
         IN IF r.ok /\ r.variant \in {"SighashWithAction", "Sighash"}
            THEN [err |-> "", witness |-> r]
            ELSE [err |-> "MoleculeEncoding", witness |-> DecodeError]
    ELSE [err |-> Sys(read.err), witness |-> DecodeError]

\* a slip: a Sighash primary witness takes the lock of the action witness too
Dispatch_LockOfAction(witness, sighash_with_action) ==
    IF witness.variant = "SighashWithAction"
    THEN [err |-> "", lock |-> witness.lock, typed_message |-> witness.message]
    ELSE IF witness.variant = "Sighash"
    THEN [err |-> "", lock |-> sighash_with_action.lock,
          typed_message |-> sighash_with_action.message]
    ELSE [err |-> "WrongSighashWithAction", lock |-> <<>>, typed_message |-> <<>>]

\* parse_typed_message, the match on the primary witness:
\* [err, lock, typed_message]
Dispatch(witness, sighash_with_action) ==
    IF witness.variant = "SighashWithAction"
    THEN [err |-> "", lock |-> witness.lock, typed_message |-> witness.message]
    ELSE IF witness.variant = "Sighash"
    THEN [err |-> "", lock |-> witness.lock,
          typed_message |-> sighash_with_action.message]
    ELSE [err |-> "WrongSighashWithAction", lock |-> <<>>, typed_message |-> <<>>]

\* a slip: the length is fed big-endian
WitnessChunk_BigEndian(w) ==
    [k \in 1..LenPrefixSize |->
        to_le_bytes(Len(w), LenPrefixSize)[LenPrefixSize + 1 - k]] \o w

\* a slip: the length is not fed
WitnessChunk_NoLength(w) == w

\* generate_skeleton_hash, what one surplus witness adds to the hasher
WitnessChunk(w) == to_le_bytes(Len(w), LenPrefixSize) \o w

\* calculate_inputs_len, the arithmetic on the two offsets (as integers)
InputsLenDiff(offsets) ==
    from_le_bytes(SubSeq(offsets, 5, 8)) - from_le_bytes(SubSeq(offsets, 1, 4))
        - NUMBER_SIZE

\* a slip: one input too few, the last input's witness is hashed as surplus
InputsLen_OneLess(offsets) == InputsLenDiff(offsets) \div CellInputTotalSize - 1

InputsLen(offsets) == InputsLenDiff(offsets) \div CellInputTotalSize

\* a slip: the message length is fed, the message is not
FinalStream_NoMessageBytes(skeleton_hash, typed_message) ==
    <<skeleton_hash>> \o to_le_bytes(Len(typed_message), LenPrefixSize)

\* generate_final_hash, the stream fed to its hasher
FinalStream(skeleton_hash, typed_message) ==
    <<skeleton_hash>> \o to_le_bytes(Len(typed_message), LenPrefixSize)
        \o typed_message

generate_final_hash(skeleton_hash, typed_message) ==
    Blake2b(FinalStream(skeleton_hash, typed_message))

\* ------------------------------------------------------------------- state
VARIABLES
    tx,             \* the transaction the host holds
    entry,          \* the public function that was called
    pc,             \* where the call stands
    index,          \* QueryIter's index (check_others_in_group, fetch_sighash_with_action)
    result,         \* fetch_sighash_with_action's result
    witness,        \* fetch_sighash's value
    lock,
    typed_message,
    hasher,         \* the bytes fed to generate_skeleton_hash's hasher
    i,              \* generate_skeleton_hash's witness index
    wrapped,        \* the subtraction in calculate_inputs_len wrapped around
    skeleton_hash,
    offsets,        \* calculate_inputs_len's buffer
    load_transaction_result,  \* what load_transaction answered ("" before the call)
    calls,          \* the host calls made so far
    hostFault,      \* the host read that did not answer as a well-formed host does
    ret             \* what the call returned

vars == <<tx, entry, pc, index, result, witness, lock, typed_message, hasher, i,
          wrapped, skeleton_hash, offsets, load_transaction_result, calls,
          hostFault, ret>>

Builds == {"overflow-checks", "wrapping"}

Init ==
    /\ tx \in Transactions
    /\ entry \in Entries
    /\ pc = IF entry = "parse_typed_message"
            THEN "check_others_in_group" ELSE "load_tx_hash"
    /\ index = 0
    /\ result = None
    /\ witness = DecodeError
    /\ lock = <<>>
    /\ typed_message = <<>>
    /\ hasher = <<>>
    /\ i = 0
    /\ wrapped = FALSE
    /\ skeleton_hash = NoDigest
    /\ offsets = [k \in 1..OffsetsLen |-> 0]
    /\ load_transaction_result = ""
    /\ calls = <<>>
    /\ hostFault = "none"
    /\ ret = Running

Call(fn, source, n) == [fn |-> fn, source |-> source, index |-> n]

\* check_others_in_group: one turn of the loop (QueryIter reads the group
\* from index 0; skip(1) drops the first witness unread)
CheckOthersStep ==
    /\ pc = "check_others_in_group"
    /\ \E read \in WitnessReads(tx, index, "GroupInput") :
         LET out ==
               IF read.ok
               THEN IF index >= 1 /\ TrailerViolation(read.data)
                    THEN [pc |-> "done", index |-> index,
                          ret |-> Err("WrongWitnessLayout"), fault |-> hostFault]
                    ELSE [pc |-> pc, index |-> index + 1, ret |-> ret,
                          fault |-> hostFault]
               ELSE IF read.err = "IndexOutOfBound"
               THEN [pc |-> "fetch_sighash_with_action", index |-> 0, ret |-> ret,
                     fault |-> hostFault]
               ELSE [pc |-> "done", index |-> index, ret |-> Abort,
                     fault |-> "load_witness"]
         IN /\ pc' = out.pc
            /\ index' = out.index
            /\ ret' = out.ret
            /\ hostFault' = out.fault
    /\ calls' = Append(calls, Call("load_witness", "GroupInput", index))
    /\ UNCHANGED <<tx, entry, result, witness, lock, typed_message, hasher, i,
                   wrapped, skeleton_hash, offsets, load_transaction_result>>

\* fetch_sighash_with_action: one turn of the loop over all witnesses
FetchActionStep ==
    /\ pc = "fetch_sighash_with_action"
    /\ \E read \in WitnessReads(tx, index, "Input") :
         LET s == ScanStep(result, read.data)
             out ==
               IF read.ok
               THEN IF s.err
                    THEN [pc |-> "done", index |-> index, result |-> result,
                          ret |-> Err("WrongSighashWithAction"), fault |-> hostFault]
                    ELSE [pc |-> pc, index |-> index + 1, result |-> s.result,
                          ret |-> ret, fault |-> hostFault]
               ELSE IF read.err = "IndexOutOfBound"
               THEN IF ScanEnd(result) = ""
                    THEN [pc |-> "fetch_sighash", index |-> index, result |-> result,
                          ret |-> ret, fault |-> hostFault]
                    ELSE [pc |-> "done", index |-> index, result |-> result,
                          ret |-> Err(ScanEnd(result)), fault |-> hostFault]
               ELSE [pc |-> "done", index |-> index, result |-> result,
                     ret |-> Abort, fault |-> "load_witness"]
         IN /\ pc' = out.pc
            /\ index' = out.index
            /\ result' = out.result
            /\ ret' = out.ret
            /\ hostFault' = out.fault
    /\ calls' = Append(calls, Call("load_witness", "Input", index))
    /\ UNCHANGED <<tx, entry, witness, lock, typed_message, hasher, i, wrapped,
                   skeleton_hash, offsets, load_transaction_result>>

\* fetch_sighash
FetchSighashStep ==
    /\ pc = "fetch_sighash"
    /\ \E read \in WitnessReads(tx, 0, "GroupInput") :
         LET r == FetchSighashResult(read)
         IN /\ witness' = r.witness
            /\ pc' = IF r.err = "" THEN "dispatch" ELSE "done"
            /\ ret' = IF r.err = "" THEN ret ELSE Err(r.err)
            /\ hostFault' = IF read = HostErr("Unknown")
                            THEN "load_witness" ELSE hostFault
    /\ calls' = Append(calls, Call("load_witness", "GroupInput", 0))
    /\ UNCHANGED <<tx, entry, index, result, lock, typed_message, hasher, i,
                   wrapped, skeleton_hash, offsets, load_transaction_result>>

\* parse_typed_message: the match on the primary witness
DispatchStep ==
    /\ pc = "dispatch"
    /\ LET d == Dispatch(witness, result)
       IN /\ lock' = d.lock
          /\ typed_message' = d.typed_message
          /\ pc' = IF d.err = "" THEN "load_tx_hash" ELSE "done"
          /\ ret' = IF d.err = "" THEN ret ELSE Err(d.err)
    /\ UNCHANGED <<tx, entry, index, result, witness, hasher, i, wrapped,
                   skeleton_hash, offsets, load_transaction_result, calls,
                   hostFault>>

\* generate_skeleton_hash: hasher.update(&load_tx_hash()?)
LoadTxHashStep ==
    /\ pc = "load_tx_hash"
    /\ \E read \in TxHashReads(tx) :
         /\ hasher' = IF read.ok THEN hasher \o read.data ELSE hasher
         /\ pc' = IF read.ok THEN "calculate_inputs_len" ELSE "done"
         /\ ret' = IF read.ok THEN ret ELSE Err(Sys(read.err))
         /\ hostFault' = IF read.ok THEN hostFault ELSE "load_tx_hash"
    /\ calls' = Append(calls, Call("load_tx_hash", "", 0))
    /\ UNCHANGED <<tx, entry, index, result, witness, lock, typed_message, i,
                   wrapped, skeleton_hash, offsets, load_transaction_result>>

\* calculate_inputs_len
CalculateInputsLenStep ==
    /\ pc = "calculate_inputs_len"
    /\ \E read \in TransactionReads(tx), build \in Builds :
         LET underflow == InputsLenDiff(read.buf) < 0
             fault == IF read.err # "LengthNotEnough" THEN "load_transaction"
                      ELSE IF read.buf \notin WellFormedWindows(tx) THEN "envelope"
                      ELSE hostFault
             out ==
               IF read.err = "LengthNotEnough"
               THEN IF ~underflow
                    THEN [pc |-> "skeleton_loop", i |-> InputsLen(read.buf),
                          wrapped |-> FALSE, ret |-> ret]
                    ELSE IF build = "overflow-checks"
                    THEN [pc |-> "done", i |-> i, wrapped |-> FALSE, ret |-> Abort]
                    ELSE [pc |-> "skeleton_loop", i |-> i, wrapped |-> TRUE,
                          ret |-> ret]
               ELSE IF read.err = "Unknown"
               THEN [pc |-> "done", i |-> i, wrapped |-> FALSE,
                     ret |-> Err(Sys(read.err))]
               ELSE [pc |-> "done", i |-> i, wrapped |-> FALSE, ret |-> Abort]
         IN /\ offsets' = read.buf
            /\ load_transaction_result' = read.err
            /\ pc' = out.pc
            /\ i' = out.i
            /\ wrapped' = out.wrapped
            /\ ret' = out.ret
            /\ hostFault' = fault
    /\ calls' = Append(calls, Call("load_transaction", "", OffsetsStart))
    /\ UNCHANGED <<tx, entry, index, result, witness, lock, typed_message, hasher,
                   skeleton_hash>>

\* generate_skeleton_hash: one turn of the loop over the surplus witnesses.
\* After a wrap-around i is beyond every witness index.
SkeletonLoopStep ==
    /\ pc = "skeleton_loop"
    /\ \E read \in (IF wrapped
                     THEN {HostErr("IndexOutOfBound"), HostErr("Unknown")}
                     ELSE WitnessReads(tx, i, "Input")) :
         /\ hasher' = IF read.ok THEN hasher \o WitnessChunk(read.data) ELSE hasher
         /\ i' = IF read.ok THEN i + 1 ELSE i
         /\ skeleton_hash' = IF read.err = "IndexOutOfBound"
                              THEN Blake2b(hasher) ELSE skeleton_hash
         /\ pc' = IF read.ok THEN pc
                  ELSE IF read.err = "IndexOutOfBound"
                          /\ entry = "parse_typed_message"
                  THEN "generate_final_hash" ELSE "done"
         /\ ret' = IF read.ok THEN ret
                   ELSE IF read.err = "IndexOutOfBound"
                   THEN (IF entry = "parse_typed_message" THEN ret
                         ELSE Ok(Blake2b(hasher), <<>>))
                   ELSE Err(Sys(read.err))
         /\ hostFault' = IF read = HostErr("Unknown") THEN "load_witness"
                         ELSE hostFault
    /\ calls' = Append(calls, Call("load_witness", "Input", i))
    /\ UNCHANGED <<tx, entry, index, result, witness, lock, typed_message,
                   wrapped, offsets, load_transaction_result>>

\* parse_typed_message: generate_final_hash and the return
FinalHashStep ==
    /\ pc = "generate_final_hash"
    /\ ret' = Ok(generate_final_hash(skeleton_hash, typed_message), lock)
    /\ pc' = "done"
    /\ UNCHANGED <<tx, entry, index, result, witness, lock, typed_message, hasher,
                   i, wrapped, skeleton_hash, offsets, load_transaction_result, calls,
                   hostFault>>

Next ==
    \/ CheckOthersStep
    \/ FetchActionStep
    \/ FetchSighashStep
    \/ DispatchStep
    \/ LoadTxHashStep
    \/ CalculateInputsLenStep
    \/ SkeletonLoopStep
    \/ FinalHashStep

Spec == Init /\ [][Next]_vars

\* ------------------------------------ the functions on a well-formed host
\* The same code run to its end on a transaction t whose host serves every
\* read; used to compare the current transaction with another one.
RECURSIVE CheckOthersFrom(_, _)
CheckOthersFrom(t, g) ==
    LET read == load_witness(t, g, "GroupInput")
    IN IF ~read.ok THEN ""
       ELSE IF g >= 1 /\ TrailerViolation(read.data) THEN "WrongWitnessLayout"
       ELSE CheckOthersFrom(t, g + 1)

check_others_in_group(t) == CheckOthersFrom(t, 0)

RECURSIVE ScanFrom(_, _, _)
ScanFrom(t, k, res) ==
    LET read == load_witness(t, k, "Input")
        s == ScanStep(res, read.data)
    IN IF ~read.ok THEN [err |-> ScanEnd(res), result |-> res]
       ELSE IF s.err THEN [err |-> "WrongSighashWithAction", result |-> res]
       ELSE ScanFrom(t, k + 1, s.result)

fetch_sighash_with_action(t) == ScanFrom(t, 0, None)

fetch_sighash(t) == FetchSighashResult(load_witness(t, 0, "GroupInput"))

calculate_inputs_len(t) == InputsLen(CHOOSE b \in WellFormedWindows(t) : TRUE)

RECURSIVE SkeletonFrom(_, _, _)
SkeletonFrom(t, k, stream) ==
    LET read == load_witness(t, k, "Input")
    IN IF read.ok THEN SkeletonFrom(t, k + 1, stream \o WitnessChunk(read.data))
       ELSE stream

SkeletonStream(t) == SkeletonFrom(t, calculate_inputs_len(t), t.tx_hash)

generate_skeleton_hash(t) == Blake2b(SkeletonStream(t))

parse_typed_message(t) ==
    LET others == check_others_in_group(t)
        action == fetch_sighash_with_action(t)
        primary == fetch_sighash(t)
        d == Dispatch(primary.witness, action.result)
    IN IF others # "" THEN Err(others)
       ELSE IF action.err # "" THEN Err(action.err)
       ELSE IF primary.err # "" THEN Err(primary.err)
       ELSE IF d.err # "" THEN Err(d.err)
       ELSE Ok(generate_final_hash(generate_skeleton_hash(t), d.typed_message),
               d.lock)

\* ------------------------------------------------- vocabulary of the claims
Done == pc = "done"
Parsing == entry = "parse_typed_message"
Skeleton == entry = "generate_skeleton_hash"
Returned(e) == ret.kind = "err" /\ ret.err = e
HostServes == hostFault = "none"

Decoded(w) == ExtendedWitnessReader_from_slice(w)
DecodesAs(w, variant) == Decoded(w).ok /\ Decoded(w).variant = variant

\* the global positions (1-based) of the witnesses that decode as SighashWithAction
ActionPositions(t) ==
    { k \in 1..Len(t.witnesses) : DecodesAs(t.witnesses[k], "SighashWithAction") }
NumActions(t) == Cardinality(ActionPositions(t))

\* the witnesses of the group that exist, by group index (0-based)
GroupPresent(t, g) == g < Len(t.group) /\ t.group[g + 1] < Len(t.witnesses)
GroupWitness(t, g) == t.witnesses[t.group[g + 1] + 1]
TrailerNonEmpty(t) ==
    \E g \in 1..(Len(t.group) - 1) :
        GroupPresent(t, g) /\ Len(GroupWitness(t, g)) > 0
PrimaryIsSighashKind(t) ==
    /\ GroupPresent(t, 0)
    /\ \/ DecodesAs(GroupWitness(t, 0), "Sighash")
       \/ DecodesAs(GroupWitness(t, 0), "SighashWithAction")

HashingCalls == {"load_tx_hash", "load_transaction"}
NoHashingYet ==
    /\ hasher = <<>>
    /\ skeleton_hash = NoDigest
    /\ \A k \in 1..Len(calls) : calls[k].fn \notin HashingCalls

\* ---------------------------------------------------------------------- C1
\* C1 (as stated): the outcome of parse_typed_message is decided by the number
\* N of witnesses that decode as SighashWithAction: N = 0 fails, N = 1
\* succeeds, N >= 2 fails, and the two failures are different error kinds
\* (the error of N >= 2 is not the one returned for N = 0).
ErrorOfMissingAction == "WrongSighashWithAction"

C2_TrailerBeforeHashing ==
    (Parsing /\ TrailerNonEmpty(tx)) =>
        /\ NoHashingYet
        /\ ret.kind # "ok"
        /\ (Done /\ HostServes) => Returned("WrongWitnessLayout")

C2_Witness ==
    /\ Done /\ Parsing /\ TrailerNonEmpty(tx)
    /\ NumActions(tx) = 2
    /\ ~PrimaryIsSighashKind(tx)
    /\ Returned("WrongWitnessLayout")
    /\ NoHashingYet

\* ---------------------------------------------------------------------- C3
\* C3: when parse_typed_message succeeds, exactly one witness of the
\* transaction decodes as SighashWithAction, the final hash was fed the
\* skeleton hash, the 8-byte little-endian length of that witness's message
\* and the message, and the returned lock is the lock of the primary witness.
Le8(n) == <<n % 256, (n \div 256) % 256, 0, 0, 0, 0, 0, 0>>

C3_MessageAndLock ==
    (Done /\ Parsing /\ ret.kind = "ok") =>
        /\ GroupPresent(tx, 0)
        /\ \E k \in ActionPositions(tx) :
              LET m == Decoded(tx.witnesses[k]).message
              IN /\ ActionPositions(tx) = {k}
                 /\ ret.digest.digest_of = <<skeleton_hash>> \o Le8(Len(m)) \o m
        /\ ret.lock = Decoded(GroupWitness(tx, 0)).lock

\* primary Sighash, the action in another witness with another lock
C3_Witness ==
    /\ Done /\ Parsing /\ ret.kind = "ok"
    /\ GroupPresent(tx, 0)
    /\ DecodesAs(GroupWitness(tx, 0), "Sighash")
    /\ \E k \in ActionPositions(tx) :
          Decoded(tx.witnesses[k]).lock # ret.lock

\* ---------------------------------------------------------------------- C6
\* C6: fetch_sighash yields a witness only when the witness at group index 0
\* decodes as Sighash or SighashWithAction, and then yields that decoded
\* witness; for any other primary witness (empty, undecodable, another
\* variant) it returns MoleculeEncoding, and parse_typed_message ends with an
\* error and no digest.
C6_PrimaryWitness ==
    /\ witness.ok =>
          /\ PrimaryIsSighashKind(tx)
          /\ witness = Decoded(GroupWitness(tx, 0))
    /\ (Parsing /\ GroupPresent(tx, 0) /\ ~PrimaryIsSighashKind(tx)) =>
          /\ ret.kind # "ok"
          /\ ret.digest = NoDigest
          /\ pc \notin {"dispatch", "load_tx_hash", "calculate_inputs_len",
                        "skeleton_loop", "generate_final_hash"}
          /\ (Done /\ HostServes) => ret.kind = "err"
          /\ (Done /\ HostServes /\ ~TrailerNonEmpty(tx) /\ NumActions(tx) = 1)
                => Returned("MoleculeEncoding")

C6_Witness ==
    /\ Done /\ Parsing /\ HostServes
    /\ GroupPresent(tx, 0)
    /\ DecodesAs(GroupWitness(tx, 0), "Otx")
    /\ Returned("MoleculeEncoding")

\* ---------------------------------------------------------------------- C4
\* the transaction t with the witness at global position k (1-based) replaced
WithWitness(t, k, w) == [t EXCEPT !.witnesses[k] = w]

\* C4: take a transaction on which parse_typed_message succeeds, whose primary
\* witness is Sighash (so the one SighashWithAction is another witness).
\* Replacing only the lock of the primary witness leaves the final digest
\* unchanged; replacing only the message of the SighashWithAction witness gives
\* a different final digest. Both replaced transactions succeed too.
C4_MessageDecidesDigest ==
    (Done /\ Parsing /\ HostServes /\ ret.kind = "ok"
        /\ DecodesAs(GroupWitness(tx, 0), "Sighash")) =>
        /\ \A l \in Locks :
              LET other == parse_typed_message(
                              WithWitness(tx, tx.group[1] + 1, EncodeSighash(l)))
              IN /\ other.kind = "ok"
                 /\ other.lock = l
                 /\ other.digest = ret.digest
        /\ \A k \in ActionPositions(tx) : \A m \in Messages :
              LET action == Decoded(tx.witnesses[k])
                  other == parse_typed_message(
                              WithWitness(tx, k,
                                  EncodeSighashWithAction(action.lock, m)))
              IN m # action.message =>
                    /\ other.kind = "ok"
                    /\ other.lock = ret.lock
                    /\ other.digest # ret.digest

\* the SighashWithAction is at an input's index, so only the message reaches
\* the digest
C4_Witness ==
    /\ Done /\ Parsing /\ HostServes /\ ret.kind = "ok"
    /\ GroupPresent(tx, 0)
    /\ DecodesAs(GroupWitness(tx, 0), "Sighash")
    /\ \E k \in ActionPositions(tx) : k <= tx.inputs /\ k > tx.group[1] + 1

\* ---------------------------------------------------------------------- C5
\* the witnesses at global index >= the number of inputs
Surplus(t) == SubSeq(t.witnesses, t.inputs + 1, Len(t.witnesses))
\* one witness per input: the input witnesses of t, with empty ones where t
\* has none
InputWitnesses(t) ==
    [k \in 1..t.inputs |-> IF k <= Len(t.witnesses) THEN t.witnesses[k] ELSE <<>>]

\* C5: generate_skeleton_hash gives the same digest for every transaction with
\* the same hash, input count and surplus witnesses, however its witnesses
\* below the input count differ (changed, or fewer of them), and a different
\* digest for every transaction whose surplus witnesses differ.
C5_SkeletonCoversSurplusOnly ==
    (Done /\ Skeleton /\ HostServes /\ ret.kind = "ok") =>
        /\ \A below \in SeqsUpTo(WitnessPool, tx.inputs) :
              (Len(below) = tx.inputs \/ Surplus(tx) = <<>>) =>
                 generate_skeleton_hash(
                    [tx EXCEPT !.witnesses = below \o Surplus(tx)]) = skeleton_hash
        /\ \A above \in SeqsUpTo(WitnessPool, MaxAltSurplus) :
              above # Surplus(tx) =>
                 generate_skeleton_hash(
                    [tx EXCEPT !.witnesses = InputWitnesses(tx) \o above])
                       # skeleton_hash

C5_Witness ==
    /\ Done /\ Skeleton /\ HostServes /\ ret.kind = "ok"
    /\ Len(tx.witnesses) = tx.inputs + 2
    /\ ret.digest = skeleton_hash

\* ---------------------------------------------------------------------- C7
\* C7 (as stated): of the answers of load_transaction, LengthNotEnough is
\* taken as success and gives an input count; every other error is returned
\* to the caller as an error, so the call never aborts on that read.
C7_EnvelopeReadErrorsReturned ==
    /\ (load_transaction_result = "LengthNotEnough" /\ hostFault # "envelope"
           /\ calls[Len(calls)].fn = "load_transaction") =>
          /\ pc = "skeleton_loop"
          /\ ret.kind = "none"
          /\ i = InputsLen(offsets)
    /\ load_transaction_result \notin {"", "LengthNotEnough"} =>
          /\ Done
          /\ ret.kind = "err"
          /\ ret.err = Sys(load_transaction_result)

\* ---------------------------------------------------------------------- C8
\* the bytes the hasher must have been fed for the witnesses at the global
\* indices from, from + 1, ..., upto - 1 (0-based)
RECURSIVE ExpectedChunks(_, _, _)
ExpectedChunks(t, from, upto) ==
    IF from >= upto THEN <<>>
    ELSE Le8(Len(t.witnesses[from + 1])) \o t.witnesses[from + 1]
            \o ExpectedChunks(t, from + 1, upto)

InSkeletonLoop == pc = "skeleton_loop"
SkeletonDone == skeleton_hash # NoDigest
LastCall == calls[Len(calls)]

\* C8: generate_skeleton_hash feeds its hasher the transaction hash and then,
\* from the index calculate_inputs_len gave and in ascending order, the 8-byte
\* little-endian length and the bytes of each witness; it ends with the digest
\* at the first index the host reports out of bounds, and returns the host's
\* error when a witness read fails otherwise; with no witness at or beyond
\* the input count the digest is the hash of the transaction hash alone.
C8_SkeletonStream ==
    /\ (InSkeletonLoop /\ ~wrapped) =>
          /\ i >= InputsLen(offsets)
          /\ i <= InputsLen(offsets) \/ i <= Len(tx.witnesses)
          /\ hasher = tx.tx_hash \o ExpectedChunks(tx, InputsLen(offsets), i)
    /\ (SkeletonDone /\ ~wrapped) =>
          /\ skeleton_hash.digest_of =
                tx.tx_hash \o ExpectedChunks(tx, InputsLen(offsets), Len(tx.witnesses))
          /\ LastCall = Call("load_witness", "Input",
                             IF Len(tx.witnesses) > InputsLen(offsets)
                             THEN Len(tx.witnesses) ELSE InputsLen(offsets))
          /\ Len(tx.witnesses) <= InputsLen(offsets) =>
                skeleton_hash = Blake2b(tx.tx_hash)
    /\ (SkeletonDone /\ wrapped) => skeleton_hash = Blake2b(tx.tx_hash)
    /\ (SkeletonDone /\ Skeleton) => Done /\ ret.kind = "ok" /\ ret.digest = skeleton_hash
    /\ (Done /\ Skeleton /\ hostFault = "load_witness") =>
          /\ ret.kind = "err"
          /\ ret.err = "Sys(Unknown)"
          /\ ~SkeletonDone

C8_Witness ==
    /\ Done /\ Skeleton /\ HostServes /\ ret.kind = "ok"
    /\ Len(tx.witnesses) = tx.inputs + 2
    /\ \A k \in (tx.inputs + 1)..Len(tx.witnesses) : Len(tx.witnesses[k]) > 0
    /\ LastCall = Call("load_witness", "Input", Len(tx.witnesses))

\* ---------------------------------------------------------------------- C9
\* C9 (as stated): for every pair of offsets read from the envelope,
\* calculate_inputs_len gives (outputs_offset - inputs_offset - 4) / 44 with no
\* wrap-around and no underflow, at most outputs_offset / 44, and that is the
\* first witness index generate_skeleton_hash reads.
C9_InputsLenNoUnderflow ==
    (load_transaction_result = "LengthNotEnough"
        /\ LastCall.fn = "load_transaction") =>
        LET inputs_offset == from_le_bytes(SubSeq(offsets, 1, 4))
            outputs_offset == from_le_bytes(SubSeq(offsets, 5, 8))
        IN /\ ~wrapped
           /\ ret.kind # "abort"
           /\ pc = "skeleton_loop"
           /\ i = (outputs_offset - inputs_offset - 4) \div 44
           /\ i >= 0
           /\ i <= outputs_offset \div 44

\* --------------------------------------------------------------------- C10
\* C10: the stream fed to a hasher names its fields: another transaction hash
\* and sequence of surplus witnesses gives the stream generate_skeleton_hash
\* fed only if the hash and the sequence are the same, and another skeleton
\* hash and message gives the stream generate_final_hash fed only if both are
\* the same.
C10_StreamsUnambiguous ==
    (Done /\ Parsing /\ HostServes /\ ret.kind = "ok") =>
        /\ skeleton_hash.digest_of = SkeletonStream(tx)
        /\ \A h \in TxHashes : \A above \in SeqsUpTo(WitnessPool, MaxAltSurplus) :
              SkeletonStream([tx EXCEPT !.tx_hash = h,
                                        !.witnesses = InputWitnesses(tx) \o above])
                    = skeleton_hash.digest_of
                 => h = tx.tx_hash /\ above = Surplus(tx)
        /\ \A sk \in {skeleton_hash, Blake2b(tx.tx_hash)} :
           \A m \in Messages \cup {<<>>, <<5, 6, 6>>} :
              FinalStream(sk, m) = ret.digest.digest_of
                 => sk = skeleton_hash /\ m = typed_message

\* two surplus witnesses, one of them empty: the bytes alone do not tell where
\* one witness ends
C10_Witness ==
    /\ Done /\ Parsing /\ HostServes /\ ret.kind = "ok"
    /\ Len(tx.witnesses) = tx.inputs + 2
    /\ tx.witnesses[tx.inputs + 1] = <<>>
    /\ tx.witnesses[tx.inputs + 2] # <<>>

====
